---- MODULE Spec2Model ----
(***************************************************************************)
(* The live gesture-detection loop of the Streamlit application            *)
(* (src/unnamed/part_006): the GESTURES rule table, the per-frame gesture  *)
(* loop with its cooldown state, and the blocking call of the              *)
(* interpretation client.                                                  *)
(*                                                                         *)
(* Units.  Landmark coordinates are integers in thousandths of the         *)
(* normalized image unit (0.06 is 60).  Timestamps are integers in seconds;*)
(* session start is 0 and every frame reads a strictly later clock value.  *)
(***************************************************************************)
EXTENDS Integers, Sequences, FiniteSets, TLC

(* ------------------------------ bounds -------------------------------- *)
MaxTime == 8
MaxDt == 3
MaxSceneFaces == 2

(* ------------------------- program constants -------------------------- *)
cooldown_seconds == 5
max_num_faces == 1

(* ------------------------------ helpers ------------------------------- *)
Abs(a) == IF a < 0 THEN 0 - a ELSE a
Min(a, b) == IF a < b THEN a ELSE b
ToSet(s) == {s[i] : i \in 1..Len(s)}

Pt(px, py, pz) == [x |-> px, y |-> py, z |-> pz]

(* A face at rest: no rule of GESTURES holds on it. *)
Neutral ==
    (6 :> Pt(480, 380, 0)) @@ (10 :> Pt(480, 200, 0)) @@ (13 :> Pt(480, 600, 0)) @@
    (14 :> Pt(480, 620, 0)) @@ (33 :> Pt(380, 350, 0)) @@ (50 :> Pt(350, 450, 0)) @@
    (61 :> Pt(400, 610, 0)) @@ (65 :> Pt(400, 300, 0)) @@ (94 :> Pt(480, 480, 0)) @@
    (133 :> Pt(440, 350, 0)) @@ (145 :> Pt(410, 365, 0)) @@ (152 :> Pt(480, 700, 0)) @@
    (159 :> Pt(410, 350, 0)) @@ (168 :> Pt(480, 350, 0)) @@ (234 :> Pt(300, 400, 0)) @@
    (263 :> Pt(520, 350, 0)) @@ (280 :> Pt(550, 450, 0)) @@ (291 :> Pt(460, 610, 0)) @@
    (295 :> Pt(500, 300, 0)) @@ (331 :> Pt(520, 480, 0)) @@ (362 :> Pt(520, 350, 0)) @@
    (374 :> Pt(550, 365, 0)) @@ (386 :> Pt(550, 350, 0)) @@ (454 :> Pt(700, 400, 0)) @@
    (468 :> Pt(410, 350, 0)) @@ (474 :> Pt(550, 350, 0))

(* One face of results.multi_face_landmarks: n landmarks are present       *)
(* (indices 0..n-1); brow is lm[159].y - lm[65].y, gap is lm[14].y -       *)
(* lm[13].y, width is lm[291].x - lm[61].x, tilt is lm[234].y - lm[454].y, *)
(* furrow is lm[295].x - lm[65].x.                                         *)
Face(brow, gap, width, tilt, furrow, n) ==
    [n |-> n,
     landmark |-> [Neutral EXCEPT ![65] = Pt(500 - furrow, 350 - brow, 0),
                                  ![14] = Pt(480, 600 + gap, 0),
                                  ![291] = Pt(400 + width, 610, 0),
                                  ![234] = Pt(300, 400 + tilt, 0)]]

(* Outcome of a Python expression that indexes the landmarks in S and then *)
(* compares: IndexError when an index is absent, else the truth value.     *)
Test(face, S, b) ==
    IF \E i \in S : i >= face.n THEN "raises"
    ELSE IF b THEN "true" ELSE "false"

(* Python `a and b`: b is evaluated only when a is true. *)
AndThen(r1, r2) == IF r1 = "true" THEN r2 ELSE r1

(* ----------------------- GESTURES (rule table) ------------------------ *)
(* One operator per lambda of GESTURES, in thousandths.  (a+b)/2 < (c+d)/2 *)
(* - 0.02 is compared after multiplying both sides by 2.                   *)
raised_left_eyebrow(f) == Test(f, {159, 65}, f.landmark[159].y - f.landmark[65].y > 60)
raised_right_eyebrow(f) == Test(f, {386, 295}, f.landmark[386].y - f.landmark[295].y > 60)
mouth_open(f) == Test(f, {13, 14}, Abs(f.landmark[13].y - f.landmark[14].y) > 50)
frown(f) == Test(f, {61, 291}, Abs(f.landmark[61].x - f.landmark[291].x) < 35)
pursed_lips(f) == Test(f, {61, 291}, Abs(f.landmark[61].x - f.landmark[291].x) < 25)
smirk_left(f) == Test(f, {61, 291}, f.landmark[61].y > f.landmark[291].y + 15)
smirk_right(f) == Test(f, {291, 61}, f.landmark[291].y > f.landmark[61].y + 15)
cheek_puff(f) == Test(f, {50, 280}, Abs(f.landmark[50].x - f.landmark[280].x) > 250)
nostril_flare(f) == Test(f, {94, 331}, Abs(f.landmark[94].x - f.landmark[331].x) > 50)
lip_bite(f) ==
    AndThen(Test(f, {13, 14}, Abs(f.landmark[13].y - f.landmark[14].y) < 8),
            Test(f, {61, 291}, Abs(f.landmark[61].x - f.landmark[291].x) < 10))
brow_furrow(f) == Test(f, {65, 295}, Abs(f.landmark[65].x - f.landmark[295].x) < 30)
brow_lift(f) ==
    Test(f, {65, 295, 10}, f.landmark[65].y + f.landmark[295].y < 2 * f.landmark[10].y - 60)
eye_roll_up(f) == Test(f, {468, 474}, f.landmark[468].y < f.landmark[474].y - 20)
eye_roll_down(f) == Test(f, {468, 474}, f.landmark[468].y > f.landmark[474].y + 20)
chin_thrust_forward(f) == Test(f, {152}, f.landmark[152].z < 0 - 100)
chin_tuck(f) == Test(f, {152}, f.landmark[152].z > 100)
eye_blink_left(f) == Test(f, {159, 145}, Abs(f.landmark[159].y - f.landmark[145].y) < 5)
eye_blink_right(f) == Test(f, {386, 374}, Abs(f.landmark[386].y - f.landmark[374].y) < 5)
eyes_wide_open(f) == Test(f, {159, 145}, Abs(f.landmark[159].y - f.landmark[145].y) > 35)
glare_left(f) == Test(f, {33, 133}, f.landmark[33].x - f.landmark[133].x > 20)
glare_right(f) == Test(f, {263, 362}, f.landmark[263].x - f.landmark[362].x > 20)
glare_up(f) ==
    Test(f, {159, 386, 145, 374},
         f.landmark[159].y + f.landmark[386].y < f.landmark[145].y + f.landmark[374].y - 40)
glare_down(f) ==
    Test(f, {159, 386, 145, 374},
         f.landmark[159].y + f.landmark[386].y > f.landmark[145].y + f.landmark[374].y + 40)
brows_raised_and_mouth_open(f) ==
    AndThen(Test(f, {159, 65}, f.landmark[159].y - f.landmark[65].y > 30),
            Test(f, {13, 14}, Abs(f.landmark[13].y - f.landmark[14].y) > 40))
brows_lowered_and_lips_pressed(f) ==
    AndThen(Test(f, {159, 65}, f.landmark[159].y - f.landmark[65].y < 10),
            Test(f, {13, 14}, Abs(f.landmark[13].y - f.landmark[14].y) < 10))
eye_squint_left(f) == Test(f, {159, 145}, Abs(f.landmark[159].y - f.landmark[145].y) < 7)
eye_squint_right(f) == Test(f, {386, 374}, Abs(f.landmark[386].y - f.landmark[374].y) < 7)
jaw_drop(f) == Test(f, {152, 13}, Abs(f.landmark[152].y - f.landmark[13].y) > 150)
head_tilt_left(f) == Test(f, {234, 454}, f.landmark[234].y - f.landmark[454].y > 30)
head_tilt_right(f) == Test(f, {454, 234}, f.landmark[454].y - f.landmark[234].y > 30)
head_turn_right(f) == Test(f, {454, 234}, f.landmark[454].x < f.landmark[234].x - 50)
head_turn_down(f) == Test(f, {10, 152}, f.landmark[10].y > f.landmark[152].y + 80)
nose_wrinkle(f) == Test(f, {6, 168}, Abs(f.landmark[6].y - f.landmark[168].y) < 20)
brow_raise_smile(f) ==
    AndThen(Test(f, {159, 65}, f.landmark[159].y - f.landmark[65].y > 100),
            Test(f, {61, 291}, Abs(f.landmark[61].x - f.landmark[291].x) > 80))
(* Mutant: the frown half is tested with the threshold of pursed lips. *)
brow_furrow_frown_PursedThreshold(f) ==
    AndThen(Test(f, {65, 295}, Abs(f.landmark[65].x - f.landmark[295].x) < 30),
            Test(f, {61, 291}, Abs(f.landmark[61].x - f.landmark[291].x) < 25))

brow_furrow_frown(f) ==
    AndThen(Test(f, {65, 295}, Abs(f.landmark[65].x - f.landmark[295].x) < 30),
            Test(f, {61, 291}, Abs(f.landmark[61].x - f.landmark[291].x) < 35))
mouth_open_head_tilt(f) ==
    AndThen(Test(f, {13, 14}, Abs(f.landmark[13].y - f.landmark[14].y) > 40),
            Test(f, {234, 454}, Abs(f.landmark[234].y - f.landmark[454].y) > 30))

(* The names of GESTURES, in registry order. *)
GESTURES ==
    << "raised left eyebrow", "raised right eyebrow", "mouth open", "frown",
       "pursed lips", "smirk left", "smirk right", "cheek puff", "nostril flare",
       "lip bite", "brow furrow", "brow lift", "eye roll up", "eye roll down",
       "chin thrust forward", "chin tuck", "eye blink left", "eye blink right",
       "eyes wide open", "glare left", "glare right", "glare up", "glare down",
       "brows raised and mouth open", "brows lowered and lips pressed",
       "eye squint left", "eye squint right", "jaw drop", "head tilt left",
       "head tilt right", "head turn right", "head turn down", "nose wrinkle",
       "brow raise + smile", "brow furrow + frown", "mouth open + head tilt" >>

Names == ToSet(GESTURES)

(* condition(landmarks) of the rule called name: "true", "false" or "raises". *)
condition(name, f) ==
    CASE name = "raised left eyebrow" -> raised_left_eyebrow(f)
      [] name = "raised right eyebrow" -> raised_right_eyebrow(f)
      [] name = "mouth open" -> mouth_open(f)
      [] name = "frown" -> frown(f)
      [] name = "pursed lips" -> pursed_lips(f)
      [] name = "smirk left" -> smirk_left(f)
      [] name = "smirk right" -> smirk_right(f)
      [] name = "cheek puff" -> cheek_puff(f)
      [] name = "nostril flare" -> nostril_flare(f)
      [] name = "lip bite" -> lip_bite(f)
      [] name = "brow furrow" -> brow_furrow(f)
      [] name = "brow lift" -> brow_lift(f)
      [] name = "eye roll up" -> eye_roll_up(f)
      [] name = "eye roll down" -> eye_roll_down(f)
      [] name = "chin thrust forward" -> chin_thrust_forward(f)
      [] name = "chin tuck" -> chin_tuck(f)
      [] name = "eye blink left" -> eye_blink_left(f)
      [] name = "eye blink right" -> eye_blink_right(f)
      [] name = "eyes wide open" -> eyes_wide_open(f)
      [] name = "glare left" -> glare_left(f)
      [] name = "glare right" -> glare_right(f)
      [] name = "glare up" -> glare_up(f)
      [] name = "glare down" -> glare_down(f)
      [] name = "brows raised and mouth open" -> brows_raised_and_mouth_open(f)
      [] name = "brows lowered and lips pressed" -> brows_lowered_and_lips_pressed(f)
      [] name = "eye squint left" -> eye_squint_left(f)
      [] name = "eye squint right" -> eye_squint_right(f)
      [] name = "jaw drop" -> jaw_drop(f)
      [] name = "head tilt left" -> head_tilt_left(f)
      [] name = "head tilt right" -> head_tilt_right(f)
      [] name = "head turn right" -> head_turn_right(f)
      [] name = "head turn down" -> head_turn_down(f)
      [] name = "nose wrinkle" -> nose_wrinkle(f)
      [] name = "brow raise + smile" -> brow_raise_smile(f)
      [] name = "brow furrow + frown" -> brow_furrow_frown(f)
      [] name = "mouth open + head tilt" -> mouth_open_head_tilt(f)

(* --------------------------- the live loop ---------------------------- *)
VARIABLES
    pc,                \* "idle", "loop", "analyze", "stop_check", "done"
    last_detected,     \* set of gesture names that have fired
    last_detect_time,  \* dict: gesture name -> timestamp of its last firing
    current_time,      \* time.time() read for the frame being processed
    faces_in_frame,    \* number of faces in the camera image of that frame
    results,           \* results.multi_face_landmarks (<<>> when None)
    detected_now,      \* the frame's list of newly detected names
    printed,           \* names whose evaluation error was printed for the frame
    outstanding,       \* analyze_expression calls issued and not yet returned
    analyze_arg,       \* argument of the analyze_expression call in progress
    stop_button,       \* the Stop button: "absent", "shown" or "clicked"
    emitLog,           \* history: <<name, timestamp>> of every emission
    steady             \* history: every frame so far gave the same results

(* The React components and the other units of the repository: the one    *)
(* that is mounted (running), its state, its HTTP requests in flight, the  *)
(* wall clock its entries are stamped with, and the entry its last history *)
(* update dropped.                                                         *)
VARIABLES
    component,         \* name of the mounted component, "LiveLoop" for the loop
    state,             \* record of the component's useState values
    requests,          \* set of requests posted and not yet settled
    clock,             \* Date.now() / number of the webcam screenshot taken
    dropped            \* history: entry the last history update removed, else null

liveVars == << pc, last_detected, last_detect_time, current_time, faces_in_frame, results,
               detected_now, printed, outstanding, analyze_arg, stop_button, emitLog,
               steady >>

pageVars == << component, state, requests, clock, dropped >>

vars == << liveVars, pageVars >>

EmptyDict == [k \in {} |-> 0]
Get(d, k, default) == IF k \in DOMAIN d THEN d[k] ELSE default
Put(d, k, v) == [j \in (DOMAIN d) \cup {k} |-> IF j = k THEN v ELSE d[j]]

(* Mutant: the membership test lost its `not`. *)
CooldownPassed_Inverted(name, ld, ldt, now) ==
    name \in ld \/ (now - Get(ldt, name, 0)) > cooldown_seconds

(* Mutant: the elapsed time is taken from the .get default, not the entry. *)
CooldownPassed_DefaultTime(name, ld, ldt, now) ==
    name \notin ld \/ (now - 0) > cooldown_seconds

(* Mutant: the window is closed one tick early (>= for >). *)
CooldownPassed_AtLeast(name, ld, ldt, now) ==
    name \notin ld \/ (now - Get(ldt, name, 0)) >= cooldown_seconds

(* Mutant: one window for all gestures: a name that has fired is emitted   *)
(* again only when no gesture at all has fired in the last cooldown.       *)
CooldownPassed_SharedWindow(name, ld, ldt, now) ==
    name \notin ld \/ \A k \in DOMAIN ldt : (now - ldt[k]) > cooldown_seconds

(* Line 87: name not in last_detected or elapsed > cooldown_seconds. *)
CooldownPassed(name, ld, ldt, now) ==
    name \notin ld \/ (now - Get(ldt, name, 0)) > cooldown_seconds

(* Mutant: a true observation inside the window restarts the cooldown. *)
GestureStep_ResetOnTrue(name, f, now, st) ==
    LET r == condition(name, f) IN
    IF r = "raises" THEN [st EXCEPT !.printed = Append(@, name)]
    ELSE IF r = "true" /\ CooldownPassed(name, st.last_detected, st.last_detect_time, now)
    THEN [st EXCEPT !.detected_now = Append(@, name),
                    !.last_detected = @ \cup {name},
                    !.last_detect_time = Put(@, name, now)]
    ELSE IF r = "true"
    THEN [st EXCEPT !.last_detect_time = Put(@, name, now)]
    ELSE st

(* Mutant: a firing is entered in last_detected but its time is not kept. *)
GestureStep_SetOnly(name, f, now, st) ==
    LET r == condition(name, f) IN
    IF r = "raises" THEN [st EXCEPT !.printed = Append(@, name)]
    ELSE IF r = "true" /\ CooldownPassed(name, st.last_detected, st.last_detect_time, now)
    THEN [st EXCEPT !.detected_now = Append(@, name),
                    !.last_detected = @ \cup {name}]
    ELSE st

(* Lines 85-92: the body of the gesture loop for one rule.  st carries      *)
(* detected_now, last_detected, last_detect_time and the printed errors.    *)
GestureStep(name, f, now, st) ==
    LET r == condition(name, f) IN
    IF r = "raises" THEN [st EXCEPT !.printed = Append(@, name)]
    ELSE IF r = "true" /\ CooldownPassed(name, st.last_detected, st.last_detect_time, now)
    THEN [st EXCEPT !.detected_now = Append(@, name),
                    !.last_detected = @ \cup {name},
                    !.last_detect_time = Put(@, name, now)]
    ELSE st

(* Mutant: the try/except encloses the whole loop, so the first error ends it. *)
RECURSIVE GestureLoop_AbortOnRaise(_, _, _, _)
GestureLoop_AbortOnRaise(i, f, now, st) ==
    IF i > Len(GESTURES) THEN st
    ELSE IF condition(GESTURES[i], f) = "raises"
    THEN [st EXCEPT !.printed = Append(@, GESTURES[i])]
    ELSE GestureLoop_AbortOnRaise(i + 1, f, now, GestureStep(GESTURES[i], f, now, st))

(* Mutant: the registry is walked from its last rule to its first. *)
RECURSIVE GestureLoop_Reversed(_, _, _, _)
GestureLoop_Reversed(i, f, now, st) ==
    IF i > Len(GESTURES) THEN st
    ELSE GestureStep(GESTURES[i], f, now, GestureLoop_Reversed(i + 1, f, now, st))

(* Line 84: for name, condition in GESTURES, from rule i on. *)
RECURSIVE GestureLoop(_, _, _, _)
GestureLoop(i, f, now, st) ==
    IF i > Len(GESTURES) THEN st
    ELSE GestureLoop(i + 1, f, now, GestureStep(GESTURES[i], f, now, st))

(* Mutant: after a face was evaluated the names that do not hold on it are *)
(* taken out of last_detected, so a gesture re-arms by going false.        *)
RECURSIVE FaceLoop_ClearOnFalse(_, _, _, _)
FaceLoop_ClearOnFalse(k, faces, now, st) ==
    IF k > Len(faces) THEN st
    ELSE LET s1 == GestureLoop(1, faces[k], now, st)
         IN FaceLoop_ClearOnFalse(k + 1, faces, now,
                [s1 EXCEPT !.last_detected = { n \in @ : condition(n, faces[k]) = "true" }])

(* Line 82: for face_landmarks in results.multi_face_landmarks, from face k. *)
RECURSIVE FaceLoop(_, _, _, _)
FaceLoop(k, faces, now, st) ==
    IF k > Len(faces) THEN st
    ELSE FaceLoop(k + 1, faces, now, GestureLoop(1, faces[k], now, st))

(* The faces FaceMesh reports during a live session: at rest, mouth open,   *)
(* head tilted, and mouth open with only 200 landmarks present.             *)
LiveFaces ==
    { Face(50, 20, 60, 0, 100, 478), Face(50, 60, 60, 0, 100, 478),
      Face(50, 20, 60, 40, 100, 478), Face(50, 60, 60, 0, 100, 200) }

RECURSIVE SeqsOfLen(_, _)
SeqsOfLen(S, n) ==
    IF n = 0 THEN { << >> }
    ELSE { Append(q, e) : q \in SeqsOfLen(S, n - 1), e \in S }

(* Lines 9 and 76: for an image with k faces, face_mesh.process reports     *)
(* Min(k, max_num_faces) of them (None, modelled as << >>, when k = 0).     *)
face_mesh_process(k) == SeqsOfLen(LiveFaces, Min(k, max_num_faces))

(* JavaScript null / Python None. *)
null == << >>

(* No analyze_expression call is in progress. *)
NoCall == "<no call>"

(* Lines 51-53 and 63-64: the script has run to the buttons. *)
LiveIdle ==
    /\ pc = "idle"
    /\ last_detected = {}
    /\ last_detect_time = EmptyDict
    /\ current_time = 0
    /\ faces_in_frame = 0
    /\ results = << >>
    /\ detected_now = << >>
    /\ printed = << >>
    /\ outstanding = 0
    /\ analyze_arg = NoCall
    /\ stop_button = "absent"
    /\ emitLog = {}
    /\ steady = TRUE

(* The unit named c starts with state st0. *)
MountedAt(c, st0, t) ==
    /\ component = c
    /\ state = st0
    /\ requests = {}
    /\ clock = t
    /\ dropped = null

Mounted(c, st0) == MountedAt(c, st0, 0)

Init == LiveIdle /\ Mounted("LiveLoop", null)

(* Lines 63-68: Start Webcam or Refresh pressed; the loop is entered when   *)
(* the capture device opened.                                               *)
StartWebcam ==
    /\ pc = "idle"
    /\ \E opened \in BOOLEAN : pc' = IF opened THEN "loop" ELSE "done"
    /\ UNCHANGED << last_detected, last_detect_time, current_time, faces_in_frame, results,
                    detected_now, printed, outstanding, analyze_arg, stop_button, emitLog,
                    steady, pageVars >>

(* Lines 69-71: cap.read() returns no frame; the loop is left. *)
ReadFail ==
    /\ pc = "loop"
    /\ pc' = "done"
    /\ UNCHANGED << last_detected, last_detect_time, current_time, faces_in_frame, results,
                    detected_now, printed, outstanding, analyze_arg, stop_button, emitLog,
                    steady, pageVars >>

(* Line 98: ", ".join(detected_now). *)
RECURSIVE join(_, _)
join(sep, list) ==
    IF Len(list) = 0 THEN ""
    ELSE IF Len(list) = 1 THEN list[1]
    ELSE list[1] \o sep \o join(sep, Tail(list))

(* Mutant: a single new name is not worth a call. *)
ShouldAnalyze_SeveralNames(dn) == Len(dn) > 1

(* Mutant: the interpretation client is called for every frame. *)
ShouldAnalyze_Always(dn) == TRUE

(* Line 96: if detected_now. *)
ShouldAnalyze(dn) == Len(dn) > 0

(* Mutant: the call is handed to a background thread and the loop goes on. *)
AfterFrame_FireAndForget(dn) == "stop_check"

(* Lines 96-101: where the loop is after the frame was evaluated: inside    *)
(* the synchronous call analyze_expression(...), or at the Stop button.     *)
AfterFrame(dn) == IF ShouldAnalyze(dn) THEN "analyze" ELSE "stop_check"

(* Lines 69-98: one frame is read and evaluated; when detected_now is not   *)
(* empty analyze_expression is called, and the loop waits for its return.   *)
ProcessFrameWith(res, now) ==
    LET st0 == [detected_now |-> << >>, last_detected |-> last_detected,
                last_detect_time |-> last_detect_time, printed |-> << >>]
        st == IF Len(res) > 0 THEN FaceLoop(1, res, now, st0) ELSE st0
    IN /\ pc = "loop"
       /\ results' = res
       /\ current_time' = now
       /\ detected_now' = st.detected_now
       /\ printed' = st.printed
       /\ last_detected' = st.last_detected
       /\ last_detect_time' = st.last_detect_time
       /\ emitLog' = emitLog \cup { << st.detected_now[i], now >> : i \in 1..Len(st.detected_now) }
       /\ steady' = (steady /\ (current_time = 0 \/ res = results))
       /\ pc' = AfterFrame(st.detected_now)
       /\ outstanding' = IF ShouldAnalyze(st.detected_now) THEN outstanding + 1
                                                            ELSE outstanding
       /\ analyze_arg' = IF ShouldAnalyze(st.detected_now)
                          THEN join(", ", st.detected_now) ELSE analyze_arg
       /\ UNCHANGED << stop_button, pageVars >>

(* Lines 69-98 for a camera image with up to MaxSceneFaces faces, read up  *)
(* to MaxDt seconds after the previous frame.                              *)
ProcessFrame ==
    \E dt \in 1..MaxDt :
        /\ current_time + dt <= MaxTime
        /\ \E res \in UNION { face_mesh_process(k) : k \in 0..MaxSceneFaces } :
              /\ ProcessFrameWith(res, current_time + dt)
              /\ faces_in_frame' \in { k \in 0..MaxSceneFaces : res \in face_mesh_process(k) }

(* Lines 98-99: analyze_expression returns and the insight is displayed. *)
AnalyzeReturn ==
    /\ pc = "analyze"
    /\ outstanding' = outstanding - 1
    /\ analyze_arg' = NoCall
    /\ pc' = "stop_check"
    /\ UNCHANGED << last_detected, last_detect_time, current_time, faces_in_frame, results,
                    detected_now, printed, stop_button, emitLog, steady, pageVars >>

(* Line 101: the user clicks the Stop button, which is on the page once    *)
(* the loop has reached st.button for the first time; the loop may be      *)
(* anywhere in its body at that moment.                                    *)
PressStop ==
    /\ pc \in {"loop", "analyze", "stop_check"}
    /\ stop_button = "shown"
    /\ stop_button' = "clicked"
    /\ UNCHANGED << pc, last_detected, last_detect_time, current_time, faces_in_frame,
                    results, detected_now, printed, outstanding, analyze_arg, emitLog,
                    steady, pageVars >>

(* Lines 101-102: st.button("Stop") puts the button on the page and tells  *)
(* whether it was clicked: the loop ends, else it reads the next frame.    *)
StopCheck ==
    /\ pc = "stop_check"
    /\ pc' = IF stop_button = "clicked" THEN "done" ELSE "loop"
    /\ stop_button' = IF stop_button = "absent" THEN "shown" ELSE stop_button
    /\ UNCHANGED << last_detected, last_detect_time, current_time, faces_in_frame, results,
                    detected_now, printed, outstanding, analyze_arg, emitLog, steady,
                    pageVars >>

(* The steps the loop takes by itself, without the interpretation client. *)
LoopStep == ReadFail \/ ProcessFrame \/ StopCheck

Next == StartWebcam \/ ReadFail \/ ProcessFrame \/ AnalyzeReturn \/ PressStop \/ StopCheck

Spec == Init /\ [][Next]_vars

(* ------------------------------ properties ---------------------------- *)
(* A step that reads and evaluates one frame. *)
FrameStep == pc = "loop" /\ pc' \in {"analyze", "stop_check"}

(* The variables hold the values of a frame that was evaluated. *)
FrameDone == pc \in {"analyze", "stop_check"}

Emitted(dn, name) == \E i \in 1..Len(dn) : dn[i] = name
HeldOn(res, name) == \E k \in 1..Len(res) : condition(name, res[k]) = "true"
RaisedOn(res, name) == \E k \in 1..Len(res) : condition(name, res[k]) = "raises"

(* C1: any two frames on which the same gesture name is emitted have       *)
(* timestamps at least cooldown_seconds apart.                             *)
C1_EmissionsSpaced ==
    \A e1 \in emitLog, e2 \in emitLog :
        (e1[1] = e2[1] /\ e1[2] < e2[2]) => e2[2] - e1[2] >= cooldown_seconds

(* A gesture has fired twice and holds again, suppressed, on this frame. *)
C1_Witness ==
    /\ FrameDone
    /\ \E name \in Names :
        /\ \E e1 \in emitLog, e2 \in emitLog : e1[1] = name /\ e2[1] = name /\ e1[2] < e2[2]
        /\ HeldOn(results, name)
        /\ ~Emitted(detected_now, name)

(* C2 as claimed: on every frame a gesture is emitted exactly when its     *)
(* predicate holds and it has not fired yet or the time since its last     *)
(* firing is at least cooldown_seconds.                                    *)
C2_Original ==
    [][FrameStep =>
        \A name \in Names :
            Emitted(detected_now', name) <=>
                /\ HeldOn(results', name)
                /\ \/ name \notin last_detected
                   \/ current_time' - last_detect_time[name] >= cooldown_seconds]_vars

(* C2 amended: ... or the time since its last firing is strictly greater   *)
(* than cooldown_seconds (a frame exactly cooldown_seconds later does not  *)
(* fire).                                                                  *)
C2_Amended ==
    [][FrameStep =>
        \A name \in Names :
            Emitted(detected_now', name) <=>
                /\ HeldOn(results', name)
                /\ \/ name \notin last_detected
                   \/ current_time' - last_detect_time[name] > cooldown_seconds]_vars

(* A gesture holds on a frame exactly cooldown_seconds after its last      *)
(* firing and is not emitted.                                              *)
C2_Witness ==
    /\ FrameDone
    /\ \E name \in last_detected :
        /\ HeldOn(results, name)
        /\ ~Emitted(detected_now, name)
        /\ current_time - last_detect_time[name] = cooldown_seconds

(* C3: a gesture that holds on a frame inside its cooldown window is not   *)
(* emitted and keeps its last-fired timestamp; a last-fired timestamp      *)
(* changes only by a frame that emits the gesture, and then becomes that   *)
(* frame's timestamp.                                                      *)
C3_ClockFromLastFiring ==
    [][\A name \in Names :
        /\ ( /\ FrameStep
             /\ HeldOn(results', name)
             /\ name \in last_detected
             /\ current_time' - last_detect_time[name] <= cooldown_seconds )
           => ( /\ ~Emitted(detected_now', name)
                /\ last_detect_time'[name] = last_detect_time[name] )
        /\ (Get(last_detect_time', name, -1) # Get(last_detect_time, name, -1))
           => ( /\ FrameStep
                /\ Emitted(detected_now', name)
                /\ last_detect_time'[name] = current_time' )]_vars

(* A gesture that fired on an earlier frame holds on this one and is dropped. *)
C3_Witness ==
    /\ FrameDone
    /\ \E name \in last_detected :
        /\ HeldOn(results, name)
        /\ ~Emitted(detected_now, name)
        /\ last_detect_time[name] < current_time
        /\ current_time - last_detect_time[name] < cooldown_seconds

(* C4: a frame evaluated with an empty cooldown state emits exactly the    *)
(* names of the rules whose condition holds on it, and no frame emits a    *)
(* name whose condition does not hold on it.                               *)
C4_RuleExactness ==
    [][FrameStep =>
        /\ last_detected = {} =>
              \A name \in Names : Emitted(detected_now', name) <=> HeldOn(results', name)
        /\ \A name \in Names : Emitted(detected_now', name) => HeldOn(results', name)]_vars

(* A first frame on which several rules hold, several do not, and one raises. *)
C4_Witness ==
    /\ FrameDone
    /\ last_detected = ToSet(detected_now)
    /\ Len(detected_now) >= 4
    /\ Len(printed) > 0
    /\ \E name \in Names : ~HeldOn(results, name) /\ ~RaisedOn(results, name)

(* C5: a rule whose predicate raises on a frame is not emitted, its error  *)
(* is printed, its cooldown entry is unchanged, every other rule of the    *)
(* frame is evaluated and emitted by the normal rule, and the frame ends   *)
(* where every frame ends.                                                 *)
C5_RaiseIsolated ==
    [][FrameStep =>
        \A name \in Names :
            RaisedOn(results', name) =>
                /\ ~Emitted(detected_now', name)
                /\ Emitted(printed', name)
                /\ (name \in last_detected') <=> (name \in last_detected)
                /\ Get(last_detect_time', name, -1) = Get(last_detect_time, name, -1)
                /\ \A other \in Names \ {name} :
                      (HeldOn(results', other) /\
                          (other \notin last_detected \/
                           current_time' - last_detect_time[other] > cooldown_seconds))
                      => Emitted(detected_now', other)
                /\ pc' = IF Len(detected_now') > 0 THEN "analyze" ELSE "stop_check"]_vars

(* A rule that fired earlier raises on this frame while another is emitted. *)
C5_Witness ==
    /\ FrameDone
    /\ Emitted(printed, "head tilt left")
    /\ "head tilt left" \in last_detected
    /\ Emitted(detected_now, "mouth open")

(* C6 as claimed: each compound rule is emitted on a first frame exactly   *)
(* when the atomic rules it names are.  ("brow raise + smile" and "brows   *)
(* lowered and lips pressed" name atoms GESTURES does not define.)         *)
C6_Original ==
    FrameDone =>
        /\ Emitted(detected_now, "brow furrow + frown") <=>
              (Emitted(detected_now, "brow furrow") /\ Emitted(detected_now, "frown"))
        /\ Emitted(detected_now, "mouth open + head tilt") <=>
              ( /\ Emitted(detected_now, "mouth open")
                /\ \/ Emitted(detected_now, "head tilt left")
                   \/ Emitted(detected_now, "head tilt right") )
        /\ Emitted(detected_now, "brows raised and mouth open") <=>
              ( /\ Emitted(detected_now, "raised left eyebrow")
                /\ Emitted(detected_now, "mouth open") )

(* C6 amended: "brow furrow + frown" is exactly the AND of "brow furrow"   *)
(* and "frown"; the other compound rules are geometric tests of their own  *)
(* with their own thresholds: "brows raised and mouth open" and "mouth     *)
(* open + head tilt" hold whenever the atomic rules they name hold (not    *)
(* only then), "brow raise + smile" holds only when "raised left eyebrow"  *)
(* holds, and "brows lowered and lips pressed" only when neither "raised   *)
(* left eyebrow" nor "mouth open" holds.                                   *)
C6_Amended ==
    FrameDone =>
        /\ Emitted(detected_now, "brow furrow + frown") <=>
              (Emitted(detected_now, "brow furrow") /\ Emitted(detected_now, "frown"))
        /\ ( /\ Emitted(detected_now, "mouth open")
             /\ \/ Emitted(detected_now, "head tilt left")
                \/ Emitted(detected_now, "head tilt right") )
           => Emitted(detected_now, "mouth open + head tilt")
        /\ (Emitted(detected_now, "raised left eyebrow") /\ Emitted(detected_now, "mouth open"))
           => Emitted(detected_now, "brows raised and mouth open")
        /\ Emitted(detected_now, "brow raise + smile")
           => Emitted(detected_now, "raised left eyebrow")
        /\ Emitted(detected_now, "brows lowered and lips pressed")
           => ( /\ ~Emitted(detected_now, "raised left eyebrow")
                /\ ~Emitted(detected_now, "mouth open") )

(* "brow furrow + frown" fires with its atoms, and a compound rule fires   *)
(* on a frame where an atom it names does not.                             *)
C6_Witness ==
    /\ FrameDone
    /\ Emitted(detected_now, "brow furrow + frown")
    /\ Emitted(detected_now, "brow furrow")
    /\ Emitted(detected_now, "frown")
    /\ Emitted(detected_now, "brows raised and mouth open")
    /\ ~Emitted(detected_now, "mouth open")

(* C7 as claimed: the rule set is evaluated once for every face of the     *)
(* frame.                                                                  *)
C7_Original == FrameDone => Len(results) = faces_in_frame

(* C8: a frame without a face emits nothing, issues no interpretation      *)
(* request, leaves the cooldown state unchanged and ends at the Stop       *)
(* button, from where the loop goes on.                                    *)
C8_NoFaceFrame ==
    [][(FrameStep /\ Len(results') = 0) =>
        /\ detected_now' = << >>
        /\ outstanding' = outstanding
        /\ pc' = "stop_check"
        /\ last_detected' = last_detected
        /\ last_detect_time' = last_detect_time]_vars

(* A frame without a face was evaluated in a session with cooldown state. *)
C8_Witness ==
    /\ pc = "stop_check"
    /\ current_time > 0
    /\ faces_in_frame = 0
    /\ last_detected # {}

(* C9: at most one analyze_expression call is outstanding. *)
C9_AtMostOneOutstanding == outstanding <= 1

(* A request is outstanding for a later frame than an earlier request. *)
C9_Witness ==
    /\ outstanding = 1
    /\ \E e1 \in emitLog, e2 \in emitLog : e1[2] < e2[2] /\ e2[2] = current_time

(* C10 as claimed: while an interpretation request is outstanding the loop *)
(* can take its next step (frame intake goes on).                          *)
C10_Original == outstanding > 0 => ENABLED LoopStep

(* C11 as claimed: once Stop is clicked no frame is read or evaluated and  *)
(* no analyze_expression call is issued.                                   *)
C11_Original ==
    [][stop_button = "clicked" => (~FrameStep /\ outstanding' <= outstanding)]_vars

(* C16: a frame whose detected_now is not empty issues exactly one         *)
(* analyze_expression call, whose argument is the frame's emitted names    *)
(* joined in order; a frame whose detected_now is empty issues none; and   *)
(* no other step issues a call.                                            *)
C16_OneCallPerEmittingFrame ==
    [][ /\ FrameStep =>
              IF Len(detected_now') > 0
              THEN /\ outstanding' = outstanding + 1
                   /\ analyze_arg' = join(", ", detected_now')
                   /\ pc' = "analyze"
              ELSE /\ outstanding' = outstanding
                   /\ analyze_arg' = NoCall
                   /\ pc' = "stop_check"
        /\ ~FrameStep => (outstanding' <= outstanding /\ analyze_arg' \in {analyze_arg, NoCall})
      ]_vars

(* A gesture stays true inside its cooldown: the frame emits nothing and   *)
(* no call was issued for it.                                              *)
C16_Witness ==
    /\ pc = "stop_check"
    /\ detected_now = << >>
    /\ outstanding = 0
    /\ \E name \in last_detected : HeldOn(results, name)

(* C17: a gesture that holds on a frame more than cooldown_seconds after   *)
(* its last firing is emitted on that frame, whatever the frames between   *)
(* showed; and no step takes a name out of last_detected, in particular    *)
(* not a frame on which its predicate is false.                            *)
C17_RearmByTimeAlone ==
    [][ /\ \A name \in Names :
              ( /\ FrameStep
                /\ HeldOn(results', name)
                /\ name \in last_detected
                /\ current_time' - last_detect_time[name] > cooldown_seconds )
              => ( /\ Emitted(detected_now', name)
                   /\ last_detect_time'[name] = current_time' )
        /\ last_detected \subseteq last_detected'
      ]_vars

(* Every frame of the session showed the same face, and a gesture that     *)
(* fired on an earlier frame is emitted again on this one.                 *)
C17_Witness ==
    /\ FrameDone
    /\ steady
    /\ \E name \in Names :
        /\ Emitted(detected_now, name)
        /\ \E e \in emitLog : e[1] = name /\ e[2] < current_time

(* C18: last_detected is the key set of last_detect_time and no stored     *)
(* timestamp is later than the current frame's; no step removes a name or  *)
(* lowers a stored timestamp.                                              *)
C18_CooldownStateConsistent ==
    /\ [](/\ last_detected = DOMAIN last_detect_time
           /\ \A name \in DOMAIN last_detect_time : last_detect_time[name] <= current_time)
    /\ [][ /\ last_detected \subseteq last_detected'
            /\ \A name \in DOMAIN last_detect_time :
                  /\ name \in DOMAIN last_detect_time'
                  /\ last_detect_time'[name] >= last_detect_time[name] ]_vars

(* Names that fired on different frames are stored, one of them on this    *)
(* frame for the second time.                                              *)
C18_Witness ==
    /\ FrameDone
    /\ \E n1 \in last_detected, n2 \in last_detected :
        /\ last_detect_time[n1] < last_detect_time[n2]
        /\ last_detect_time[n2] = current_time
        /\ \E e \in emitLog : e[1] = n2 /\ e[2] < current_time

(* Position of a rule name in the registry. *)
IndexOf(name) == CHOOSE i \in 1..Len(GESTURES) : GESTURES[i] = name

NoDuplicates(list) == \A i \in 1..Len(list), j \in 1..Len(list) : i # j => list[i] # list[j]

(* C20: the rule names of GESTURES are pairwise distinct; a frame's        *)
(* detected_now holds no name twice; and the names emitted for a face are  *)
(* in registry order.                                                      *)
C20_OncePerFrameInOrder ==
    /\ NoDuplicates(GESTURES)
    /\ NoDuplicates(detected_now)
    /\ Len(results) = 1 =>
          \A i \in 1..Len(detected_now), j \in 1..Len(detected_now) :
              i < j => IndexOf(detected_now[i]) < IndexOf(detected_now[j])

(* A frame of a session with cooldown state emits several names. *)
C20_Witness ==
    /\ FrameDone
    /\ Len(detected_now) >= 2
    /\ \E name \in last_detected : ~Emitted(detected_now, name)


(* ------------------ the rule table on a single frame ------------------ *)
(* Faces around the thresholds of the rules the compound rules refer to.   *)
RuleFaces ==
    { Face(brow, gap, width, tilt, furrow, n) :
        brow \in {5, 40, 60, 61, 110}, gap \in {5, 9, 45, 50, 51},
        width \in {5, 20, 30, 60, 90}, tilt \in {0 - 40, 0, 30, 40},
        furrow \in {20, 100}, n \in {478, 468, 200} }

(* The first frame of a session shows one face of RuleFaces. *)
FirstFrame ==
    /\ current_time = 0
    /\ \E f \in RuleFaces : ProcessFrameWith(<< f >>, 1) /\ faces_in_frame' = 1

NextRules == StartWebcam \/ ReadFail \/ FirstFrame \/ AnalyzeReturn \/ StopCheck

SpecRules == Init /\ [][NextRules]_vars

(* --------------------------- the upload pages ------------------------- *)
(* UploadVideo.js line 114: 50 * 1024 * 1024 bytes. *)
MaxVideoBytes == 52428800

(* The components that post a selected file for analysis. *)
UploadPages == {"UploadImage", "UploadVideo", "ImageUpload"}

(* Files the user can select: File objects with their name and size. *)
ImageFiles ==
    { [name |-> "face.jpg", size |-> 204800], [name |-> "group.png", size |-> 3145728] }

VideoFiles ==
    { [name |-> "clip.mp4", size |-> 1048576],
      [name |-> "limit.mp4", size |-> MaxVideoBytes],
      [name |-> "long.mp4", size |-> MaxVideoBytes + 1] }

(* Bodies of the 2xx answers, with the fields the pages render: of         *)
(* /api/analyze-image (confidence in hundredths), of /api/analyze-video,   *)
(* and of the three endpoints of ImageUpload.                              *)
ImageAnalyses ==
    { [emotion |-> "happy", confidence |-> 92, mood |-> "relaxed and open"],
      [emotion |-> "sad"] }

VideoAnalyses ==
    { [dominant_emotions |-> << "happy", "surprised" >>,
       timeline |-> << [timestamp |-> 2, emotion |-> "happy"] >>, total_frames |-> 120],
      [dominant_emotions |-> << >>, timeline |-> << >>, total_frames |-> 0] }

(* part_003 lines 12-16: analysisTypes. *)
analysisTypes ==
    [ emotion |-> "/api/analyze/image", lie |-> "/api/analyze/lie-detection",
      stress |-> "/api/analyze/stress" ]

EndpointAnalyses(url) ==
    IF url = "/api/analyze/image"
    THEN { [success |-> TRUE, analysis |-> [emotional_state |-> "calm"]] }
    ELSE IF url = "/api/analyze/lie-detection"
    THEN { [success |-> TRUE, deception_analysis |-> [deception_probability |-> 20]] }
    ELSE { [success |-> TRUE, stress_analysis |-> [stress_percentage |-> 35]] }

(* error.response?.data?.error of a failed request: the server's message,  *)
(* or "" (undefined) when there is no response or no error field in it.    *)
ErrorBodies == { "", "No face detected in the image" }

(* JavaScript a || b on strings, undefined written "". *)
OrElse(a, b) == IF a = "" THEN b ELSE a

(* JavaScript r.k, "" (undefined) when r has no field k. *)
Field(r, k) == IF k \in DOMAIN r THEN r[k] ELSE ""

(* useState initial values of the three components. *)
InitialState(c) ==
    IF c = "UploadImage" THEN [file |-> null, result |-> null, loading |-> FALSE]
    ELSE IF c = "UploadVideo"
    THEN [file |-> null, result |-> null, loading |-> FALSE, progress |-> 0]
    ELSE [selectedFile |-> null, analysis |-> null, isLoading |-> FALSE,
          analysisType |-> "emotion"]

(* axios.post(url, formData with the file). *)
Post(url, file) == [url |-> url, file |-> file]

(* UploadImage.js lines 10-33: a file is dropped or selected. *)
UploadImage_handleFileSelect ==
    /\ component = "UploadImage"
    /\ \E f \in ImageFiles : state' = [state EXCEPT !.file = f]
    /\ UNCHANGED << liveVars, component, requests, clock, dropped >>

(* UploadImage.js lines 35-49: Analyze Emotion clicked (the button is      *)
(* rendered when a file is selected and disabled while loading).           *)
analyzeImage ==
    /\ component = "UploadImage"
    /\ state.file # null
    /\ ~state.loading
    /\ state' = [state EXCEPT !.loading = TRUE, !.result = null]
    /\ requests' = requests \cup { Post("/api/analyze-image", state.file) }
    /\ UNCHANGED << liveVars, component, clock, dropped >>

(* UploadImage.js lines 51, 56-58: the request succeeded. *)
analyzeImage_then ==
    /\ component = "UploadImage"
    /\ \E req \in requests, data \in ImageAnalyses :
        /\ state' = [state EXCEPT !.result = data, !.loading = FALSE]
        /\ requests' = requests \ {req}
    /\ UNCHANGED << liveVars, component, clock, dropped >>

(* Mutant: a failed request is answered with a default analysis. *)
analyzeImage_error_Fabricated(body) == [emotion |-> "neutral", confidence |-> 80]

(* UploadImage.js lines 53-55: the result stored for a failed request. *)
analyzeImage_error(body) == [error |-> OrElse(body, "Failed to analyze image")]

(* UploadImage.js lines 52-58: the request failed. *)
analyzeImage_catch ==
    /\ component = "UploadImage"
    /\ \E req \in requests, body \in ErrorBodies :
        /\ state' = [state EXCEPT !.result = analyzeImage_error(body), !.loading = FALSE]
        /\ requests' = requests \ {req}
    /\ UNCHANGED << liveVars, component, clock, dropped >>

(* UploadImage.js lines 111-131 and UploadVideo.js lines 155-210: what the *)
(* page shows for a result: nothing, the error, or the analysis.           *)
ResultView(result, loading) ==
    IF result = null \/ loading THEN "none"
    ELSE IF Field(result, "error") # "" THEN "error"
    ELSE "analysis"

(* UploadVideo.js lines 11-34: a file is dropped or selected. *)
UploadVideo_handleFileSelect ==
    /\ component = "UploadVideo"
    /\ \E f \in VideoFiles : state' = [state EXCEPT !.file = f]
    /\ UNCHANGED << liveVars, component, requests, clock, dropped >>

(* UploadVideo.js lines 36-55: Analyze Video clicked (the button is        *)
(* rendered when a file is selected and disabled while loading; lines      *)
(* 114-118 only show a warning for a file above MaxVideoBytes).            *)
analyzeVideo ==
    /\ component = "UploadVideo"
    /\ state.file # null
    /\ ~state.loading
    /\ state' = [state EXCEPT !.loading = TRUE, !.result = null, !.progress = 0]
    /\ requests' = requests \cup { Post("/api/analyze-video", state.file) }
    /\ UNCHANGED << liveVars, component, clock, dropped >>

(* UploadVideo.js lines 51-54: onUploadProgress reports the percentage. *)
analyzeVideo_onUploadProgress ==
    /\ component = "UploadVideo"
    /\ requests # {}
    /\ \E percent \in {50, 100} : state' = [state EXCEPT !.progress = percent]
    /\ UNCHANGED << liveVars, component, requests, clock, dropped >>

(* UploadVideo.js lines 57, 62-65: the request succeeded. *)
analyzeVideo_then ==
    /\ component = "UploadVideo"
    /\ \E req \in requests, data \in VideoAnalyses :
        /\ state' = [state EXCEPT !.result = data, !.loading = FALSE, !.progress = 0]
        /\ requests' = requests \ {req}
    /\ UNCHANGED << liveVars, component, clock, dropped >>

(* UploadVideo.js lines 59-61: the result stored for a failed request. *)
analyzeVideo_error(body) == [error |-> OrElse(body, "Failed to analyze video")]

(* UploadVideo.js lines 58-65: the request failed. *)
analyzeVideo_catch ==
    /\ component = "UploadVideo"
    /\ \E req \in requests, body \in ErrorBodies :
        /\ state' = [state EXCEPT !.result = analyzeVideo_error(body), !.loading = FALSE,
                                  !.progress = 0]
        /\ requests' = requests \ {req}
    /\ UNCHANGED << liveVars, component, clock, dropped >>

(* part_003 lines 18-24: a file is selected; the analysis is cleared. *)
ImageUpload_handleFileSelect ==
    /\ component = "ImageUpload"
    /\ \E f \in ImageFiles : state' = [state EXCEPT !.selectedFile = f, !.analysis = null]
    /\ UNCHANGED << liveVars, component, requests, clock, dropped >>

(* part_003 lines 165-169: an analysis type is chosen. *)
setAnalysisType ==
    /\ component = "ImageUpload"
    /\ \E id \in DOMAIN analysisTypes : state' = [state EXCEPT !.analysisType = id]
    /\ UNCHANGED << liveVars, component, requests, clock, dropped >>

(* part_003 lines 26-39: Analyze clicked (the button is rendered when a    *)
(* file is selected and disabled while isLoading).                         *)
handleAnalyze ==
    /\ component = "ImageUpload"
    /\ state.selectedFile # null
    /\ ~state.isLoading
    /\ state' = [state EXCEPT !.isLoading = TRUE]
    /\ requests' = requests \cup { Post(analysisTypes[state.analysisType], state.selectedFile) }
    /\ UNCHANGED << liveVars, component, clock, dropped >>

(* part_003 lines 41 and 50: the request succeeded. *)
handleAnalyze_then ==
    /\ component = "ImageUpload"
    /\ \E req \in requests :
        /\ \E data \in EndpointAnalyses(req.url) :
              state' = [state EXCEPT !.analysis = data, !.isLoading = FALSE]
        /\ requests' = requests \ {req}
    /\ UNCHANGED << liveVars, component, clock, dropped >>

(* part_003 lines 44-47: the analysis stored for a failed request. *)
handleAnalyze_error == [success |-> FALSE, error |-> "Analysis failed. Please try again."]

(* part_003 lines 42-50: the request failed. *)
handleAnalyze_catch ==
    /\ component = "ImageUpload"
    /\ \E req \in requests :
        /\ state' = [state EXCEPT !.analysis = handleAnalyze_error, !.isLoading = FALSE]
        /\ requests' = requests \ {req}
    /\ UNCHANGED << liveVars, component, clock, dropped >>

(* part_003 lines 53-62: renderAnalysisResult shows nothing, the error     *)
(* box, or the section of the analysis type.                               *)
renderAnalysisResult(analysis) ==
    IF analysis = null THEN "none"
    ELSE IF ~analysis.success THEN "error"
    ELSE "analysis"

InitUpload == LiveIdle /\ \E c \in UploadPages : Mounted(c, InitialState(c))

NextUpload ==
    \/ UploadImage_handleFileSelect \/ analyzeImage \/ analyzeImage_then \/ analyzeImage_catch
    \/ UploadVideo_handleFileSelect \/ analyzeVideo \/ analyzeVideo_onUploadProgress
    \/ analyzeVideo_then \/ analyzeVideo_catch
    \/ ImageUpload_handleFileSelect \/ setAnalysisType \/ handleAnalyze
    \/ handleAnalyze_then \/ handleAnalyze_catch

SpecUpload == InitUpload /\ [][NextUpload]_vars

(* Fields that carry analysis text in a stored result. *)
AnalysisFields ==
    { "emotion", "confidence", "mood", "dominant_emotions", "timeline", "total_frames",
      "analysis", "deception_analysis", "stress_analysis" }

(* The result a page has stored, whatever the page calls it. *)
Stored(st) == IF "analysis" \in DOMAIN st THEN st.analysis ELSE st.result

StoredView(st) ==
    IF "analysis" \in DOMAIN st THEN renderAnalysisResult(st.analysis)
    ELSE ResultView(st.result, st.loading)

Loading(st) == IF "isLoading" \in DOMAIN st THEN st.isLoading ELSE st.loading

AllAnalyses ==
    ImageAnalyses \cup VideoAnalyses \cup
    UNION { EndpointAnalyses(analysisTypes[id]) : id \in DOMAIN analysisTypes }

(* C12: when the request of an upload page fails, the stored result has an *)
(* error field (and success = FALSE in ImageUpload), no analysis field, is *)
(* none of the successful results and is shown as an error; the failure    *)
(* posts no new request (only an Analyze click posts one); and a stored    *)
(* failure is changed only by a later user action or the answer to a       *)
(* request the user started.                                               *)
C12_FailureIsStructured ==
    [][ /\ (analyzeImage_catch \/ analyzeVideo_catch \/ handleAnalyze_catch) =>
              /\ "error" \in DOMAIN Stored(state')
              /\ Stored(state').error # ""
              /\ DOMAIN Stored(state') \cap AnalysisFields = {}
              /\ component = "ImageUpload" => Stored(state').success = FALSE
              /\ Stored(state') \notin AllAnalyses
              /\ StoredView(state') = "error"
              /\ ~Loading(state')
              /\ requests' \subseteq requests /\ requests' # requests
        /\ ~(requests' \subseteq requests) => (analyzeImage \/ analyzeVideo \/ handleAnalyze)
        /\ (Stored(state) # null /\ "error" \in DOMAIN Stored(state)
              /\ Stored(state') # Stored(state)) =>
              \/ analyzeImage \/ analyzeVideo \/ ImageUpload_handleFileSelect
              \/ handleAnalyze_then \/ handleAnalyze_catch
      ]_vars

(* A request of UploadVideo has failed without a message from the server   *)
(* and the page shows the error.                                           *)
C12_Witness ==
    /\ component = "UploadVideo"
    /\ state.result = [error |-> "Failed to analyze video"]
    /\ ~state.loading
    /\ requests = {}
    /\ ResultView(state.result, state.loading) = "error"

(* C13 as claimed: no file above MaxVideoBytes is posted to                *)
(* /api/analyze-video.                                                     *)
C13_Original ==
    \A req \in requests : req.url = "/api/analyze-video" => req.file.size <= MaxVideoBytes

(* ----------------------- the batch frame sampler ---------------------- *)
(* The sampler of uploaded videos is not among the sources; it is modelled *)
(* from its description: every K-th decoded frame of a video of T frames   *)
(* is processed, starting with the first, the others are skipped; a        *)
(* processed frame is evaluated and compared with the previous processed   *)
(* frame.                                                                  *)
MaxFrames == 6
MaxSkip == 7

(* Mutant: the first K - 1 frames are skipped before the first is taken. *)
Sampled_AfterSkipping(i, K) == (i + 1) % K = 0

(* Frame i (counted from 0) is one of the frames processed. *)
Sampled(i, K) == i % K = 0

(* The sampler before the first frame of a video of T frames. *)
SamplerStart(T, K) ==
    [T |-> T, K |-> K, frame |-> 0, inspected |-> {}, evaluated |-> {},
     compared |-> {}, previous |-> 0 - 1]

(* The next decoded frame is processed: evaluated, and compared with the   *)
(* previous processed frame when there is one.                             *)
InspectFrame ==
    /\ component = "BatchSampler"
    /\ state.frame < state.T
    /\ Sampled(state.frame, state.K)
    /\ state' = [state EXCEPT !.frame = @ + 1,
                              !.inspected = @ \cup {state.frame},
                              !.evaluated = @ \cup {state.frame},
                              !.compared = IF state.previous >= 0
                                           THEN @ \cup { << state.previous, state.frame >> }
                                           ELSE @,
                              !.previous = state.frame]
    /\ UNCHANGED << liveVars, component, requests, clock, dropped >>

(* The next decoded frame is skipped. *)
SkipFrame ==
    /\ component = "BatchSampler"
    /\ state.frame < state.T
    /\ ~Sampled(state.frame, state.K)
    /\ state' = [state EXCEPT !.frame = @ + 1]
    /\ UNCHANGED << liveVars, component, requests, clock, dropped >>

InitSampler ==
    LiveIdle /\ \E T \in 1..MaxFrames, K \in 1..MaxSkip : Mounted("BatchSampler", SamplerStart(T, K))

NextSampler == InspectFrame \/ SkipFrame

SpecSampler == InitSampler /\ [][NextSampler]_vars

Ceil(a, b) == (a + b - 1) \div b

(* C14: after the pass over a video of T frames with skip factor K exactly *)
(* ceil(T/K) frames were inspected (all of them for K = 1, one for         *)
(* K >= T); at any time only inspected frames have contributed detections  *)
(* or taken part in a significance comparison.                             *)
C14_SamplerInspectsCeil ==
    component = "BatchSampler" =>
        /\ state.frame = state.T =>
              /\ Cardinality(state.inspected) = Ceil(state.T, state.K)
              /\ state.K = 1 => state.inspected = 0..(state.T - 1)
              /\ state.K >= state.T => state.inspected = {0}
        /\ state.evaluated \subseteq state.inspected
        /\ \A pair \in state.compared :
              pair[1] \in state.inspected /\ pair[2] \in state.inspected
        /\ \A i \in 0..(state.frame - 1) :
              ~Sampled(i, state.K) => i \notin state.evaluated

(* The pass is over for a video whose length is not a multiple of the      *)
(* skip factor: frames were skipped and the last stretch is a short one.   *)
C14_Witness ==
    /\ component = "BatchSampler"
    /\ state.frame = state.T
    /\ state.K > 1
    /\ state.K < state.T
    /\ state.T % state.K # 0
    /\ Cardinality(state.inspected) >= 2
    /\ Cardinality(state.inspected) < state.T

(* ------------------- the live pages and their histories --------------- *)
MaxClock == 11
MaxIntervals == 2
MaxCaptures == 5

LivePages == {"LiveCamera", "LandmarksTracker", "SimpleLandmarks"}

(* Mutant: the end index is taken as inclusive. *)
slice_Inclusive(list, from, to) == SubSeq(list, from + 1, Min(Len(list), to + 1))

(* JavaScript list.slice(from, to): the elements at indices from..to-1. *)
slice(list, from, to) == SubSeq(list, from + 1, Min(Len(list), to))

(* The entry a history update pushes out: the last of a list that already  *)
(* holds limit entries.                                                    *)
Pushed(list, limit) == IF Len(list) >= limit THEN list[Len(list)] ELSE null

(* SimpleLandmarks.js lines 195-229, 241-248, 285-292: what the handlers   *)
(* installed by the last committed render see.  capture is a useCallback   *)
(* over [analyzing], so the Manual Capture button and the interval of the  *)
(* auto-capture effect call the capture of that render, with its value of  *)
(* analyzing; called holds the triggers that have called it since.         *)
Rendered(analyzing) == [analyzing |-> analyzing, called |-> {}]

(* useState initial values; intervals holds the closures of the running    *)
(* setInterval callbacks of LandmarksTracker, handlers the closure of the  *)
(* capture callback of LiveCamera.                                         *)
LiveInitialState(c) ==
    IF c = "LiveCamera"
    THEN [isActive |-> FALSE, results |-> << >>, analyzing |-> FALSE, autoCapture |-> TRUE,
          handlers |-> Rendered(FALSE)]
    ELSE IF c = "LandmarksTracker"
    THEN [isTracking |-> FALSE, emotions |-> << >>, currentEmotion |-> null,
          intervals |-> << >>]
    ELSE [isActive |-> FALSE, detections |-> << >>]

(* SimpleLandmarks.js lines 231-234: Start Analysis (the button toggles). *)
startAnalysis ==
    /\ component = "LiveCamera"
    /\ ~state.isActive
    /\ state' = [state EXCEPT !.isActive = TRUE, !.results = << >>]
    /\ dropped' = null
    /\ UNCHANGED << liveVars, component, requests, clock >>

(* SimpleLandmarks.js lines 236-238: Stop Analysis.  The requests in      *)
(* flight go on; stopped marks them as begun before a Stop (a history      *)
(* value, not part of what is posted).                                     *)
stopAnalysis ==
    /\ component = "LiveCamera"
    /\ state.isActive
    /\ state' = [state EXCEPT !.isActive = FALSE]
    /\ requests' = { [req EXCEPT !.stopped = TRUE] : req \in requests }
    /\ UNCHANGED << liveVars, component, clock, dropped >>

(* SimpleLandmarks.js lines 294-299: the auto-capture checkbox. *)
setAutoCapture ==
    /\ component = "LiveCamera"
    /\ state' = [state EXCEPT !.autoCapture = ~@]
    /\ UNCHANGED << liveVars, component, requests, clock, dropped >>

(* SimpleLandmarks.js line 196: capture goes on when the analyzing of its  *)
(* closure is false (webcamRef.current is set while the page is mounted).  *)
capture_guard(st) == ~st.handlers.analyzing

(* SimpleLandmarks.js lines 195-215: capture called by trigger by: Manual  *)
(* Capture (enabled when active and not analyzing) or the 3-second timer   *)
(* (set when active with auto-capture).  It returns at once when its       *)
(* closure's analyzing is true, else it sets analyzing and posts the       *)
(* screenshot.                                                             *)
captureBy(by) ==
    /\ component = "LiveCamera"
    /\ state.isActive
    /\ clock < MaxClock
    /\ by = "timer" => state.autoCapture
    /\ capture_guard(state)
    /\ state' = [state EXCEPT !.analyzing = TRUE, !.handlers.called = @ \cup {by}]
    /\ clock' = clock + 1
    /\ requests' = requests \cup { [url |-> "/api/analyze-image", image |-> clock + 1,
                                    stopped |-> FALSE] }
    /\ UNCHANGED << liveVars, component, dropped >>

(* A trigger calls the capture of the current render. *)
capture ==
    /\ component = "LiveCamera"
    /\ state.handlers.called = {}
    /\ \E by \in {"timer", "button"} : captureBy(by)

(* The render that follows setAnalyzing(true) is a later turn of the event *)
(* loop: before it the other trigger, already due, calls the capture of    *)
(* the previous render.                                                    *)
capture_stale ==
    /\ component = "LiveCamera"
    /\ state.handlers.called # {}
    /\ \E by \in {"timer", "button"} \ state.handlers.called : captureBy(by)

(* SimpleLandmarks.js lines 195-229 and 241-248: React renders the page    *)
(* with the current analyzing; useCallback makes a new capture, the button *)
(* gets it and the effect replaces the interval.                           *)
LiveCamera_render ==
    /\ component = "LiveCamera"
    /\ state.handlers # Rendered(state.analyzing)
    /\ state' = [state EXCEPT !.handlers = Rendered(state.analyzing)]
    /\ UNCHANGED << liveVars, component, requests, clock, dropped >>

(* Body of the 2xx answer to a capture. *)
CaptureAnalyses == { [emotion |-> "happy", confidence |-> 92] }

(* SimpleLandmarks.js line 223: prev => [newResult, ...prev.slice(0, 9)]. *)
LiveCamera_setResults(prev, newResult) == << newResult >> \o slice(prev, 0, 9)

(* SimpleLandmarks.js lines 217-228: the request succeeded. *)
capture_then ==
    /\ component = "LiveCamera"
    /\ \E req \in requests, data \in CaptureAnalyses :
        LET newResult == [emotion |-> data.emotion, confidence |-> data.confidence,
                          timestamp |-> clock, image |-> req.image]
        IN /\ state' = [state EXCEPT !.results = LiveCamera_setResults(@, newResult),
                                     !.analyzing = FALSE]
           /\ dropped' = Pushed(state.results, 10)
           /\ requests' = requests \ {req}
    /\ UNCHANGED << liveVars, component, clock >>

(* Mutant: a failed request leaves analyzing set. *)
capture_catch_StillAnalyzing ==
    /\ component = "LiveCamera"
    /\ \E req \in requests : requests' = requests \ {req}
    /\ UNCHANGED << liveVars, component, state, clock, dropped >>

(* SimpleLandmarks.js lines 224-228: the request failed. *)
capture_catch ==
    /\ component = "LiveCamera"
    /\ \E req \in requests :
        /\ state' = [state EXCEPT !.analyzing = FALSE]
        /\ requests' = requests \ {req}
    /\ UNCHANGED << liveVars, component, clock, dropped >>

(* SimpleLandmarks.js lines 11-14: Start (disabled while active). *)
startTracker ==
    /\ component = "SimpleLandmarks"
    /\ ~state.isActive
    /\ state' = [state EXCEPT !.isActive = TRUE, !.detections = << >>]
    /\ dropped' = null
    /\ UNCHANGED << liveVars, component, requests, clock >>

(* SimpleLandmarks.js lines 16-18: Stop (disabled while not active). *)
stopTracker ==
    /\ component = "SimpleLandmarks"
    /\ state.isActive
    /\ state' = [state EXCEPT !.isActive = FALSE]
    /\ UNCHANGED << liveVars, component, requests, clock, dropped >>

(* SimpleLandmarks.js lines 20-22: Clear History. *)
SimpleLandmarks_clearHistory ==
    /\ component = "SimpleLandmarks"
    /\ state' = [state EXCEPT !.detections = << >>]
    /\ dropped' = null
    /\ UNCHANGED << liveVars, component, requests, clock >>

(* SimpleLandmarks.js line 29: the emotions Math.random chooses from (two  *)
(* of the five).                                                           *)
SimulatedEmotions == { "happy", "sad" }

(* SimpleLandmarks.js line 40: prev => [newDetection, ...prev.slice(0, 4)]. *)
SimpleLandmarks_setDetections(prev, newDetection) == << newDetection >> \o slice(prev, 0, 4)

(* SimpleLandmarks.js lines 25-49: the 2-second timer, which runs while    *)
(* the tracker is active, calls detectLandmarks.                           *)
detectLandmarks ==
    /\ component = "SimpleLandmarks"
    /\ state.isActive
    /\ clock < MaxClock
    /\ clock' = clock + 1
    /\ \E randomEmotion \in SimulatedEmotions :
        LET newDetection == [emotion |-> randomEmotion, timestamp |-> clock + 1]
        IN state' = [state EXCEPT !.detections = SimpleLandmarks_setDetections(@, newDetection)]
    /\ dropped' = Pushed(state.detections, 5)
    /\ UNCHANGED << liveVars, component, requests >>

(* LandmarksTracker.js lines 21-40 and 55-60: Start Tracking (disabled     *)
(* while tracking).  When the camera is granted isTracking is set and      *)
(* simulateEmotionDetection starts a 5-second timer whose callback closes  *)
(* over the isTracking of the render that created the handler.             *)
startTracking ==
    /\ component = "LandmarksTracker"
    /\ ~state.isTracking
    /\ Len(state.intervals) < MaxIntervals
    /\ \E granted \in BOOLEAN :
        state' = IF granted
                 THEN [state EXCEPT !.isTracking = TRUE,
                                    !.intervals = Append(@, [isTracking |-> state.isTracking,
                                                             index |-> 0])]
                 ELSE state
    /\ UNCHANGED << liveVars, component, requests, clock, dropped >>

(* LandmarksTracker.js lines 42-48: Stop Tracking (disabled while not      *)
(* tracking); the timer is not cleared here.                               *)
stopTracking ==
    /\ component = "LandmarksTracker"
    /\ state.isTracking
    /\ state' = [state EXCEPT !.isTracking = FALSE, !.currentEmotion = null]
    /\ UNCHANGED << liveVars, component, requests, clock, dropped >>

(* LandmarksTracker.js lines 50-53: Clear History. *)
LandmarksTracker_clearHistory ==
    /\ component = "LandmarksTracker"
    /\ state' = [state EXCEPT !.emotions = << >>, !.currentEmotion = null]
    /\ dropped' = null
    /\ UNCHANGED << liveVars, component, requests, clock >>

(* LandmarksTracker.js line 57: the emotions the timer cycles through. *)
TrackerEmotions == << "happy", "neutral", "surprised", "focused", "thoughtful" >>

(* LandmarksTracker.js line 75: prev => [newEmotion, ...prev].slice(0, 10). *)
LandmarksTracker_setEmotions(prev, newEmotion) == slice(<< newEmotion >> \o prev, 0, 10)

Remove(list, i) == SubSeq(list, 1, i - 1) \o SubSeq(list, i + 1, Len(list))

(* LandmarksTracker.js lines 60-77: a tick of timer i.  With its isTracking *)
(* false the callback clears the timer and returns; else it records the    *)
(* next emotion.                                                           *)
simulateEmotionDetection_tick ==
    /\ component = "LandmarksTracker"
    /\ \E i \in 1..Len(state.intervals) :
        LET timer == state.intervals[i]
            newEmotion == [emotion |-> TrackerEmotions[(timer.index % Len(TrackerEmotions)) + 1],
                           timestamp |-> clock + 1, id |-> clock + 1]
        IN IF ~timer.isTracking
           THEN /\ state' = [state EXCEPT !.intervals = Remove(@, i)]
                /\ UNCHANGED << clock, dropped >>
           ELSE /\ clock < MaxClock
                /\ clock' = clock + 1
                /\ state' = [state EXCEPT
                       !.currentEmotion = newEmotion,
                       !.emotions = LandmarksTracker_setEmotions(@, newEmotion),
                       !.intervals = [@ EXCEPT ![i] = [timer EXCEPT !.index = @ + 1]]]
                /\ dropped' = Pushed(state.emotions, 10)
    /\ UNCHANGED << liveVars, component, requests >>

(* The three pages over MaxClock timer ticks and captures, each capture    *)
(* rendered before the other trigger is due.                               *)
InitLivePages == LiveIdle /\ \E c \in LivePages : Mounted(c, LiveInitialState(c))

NextLivePages ==
    \/ startAnalysis \/ stopAnalysis \/ setAutoCapture \/ capture \/ LiveCamera_render
    \/ capture_then \/ capture_catch
    \/ startTracker \/ stopTracker \/ SimpleLandmarks_clearHistory \/ detectLandmarks
    \/ startTracking \/ stopTracking \/ LandmarksTracker_clearHistory
    \/ simulateEmotionDetection_tick

SpecLivePages == InitLivePages /\ [][NextLivePages]_vars

(* LiveCamera with both triggers of capture at work: the page is mounted   *)
(* when MaxCaptures captures are left before MaxClock.                     *)
InitLiveCamera ==
    LiveIdle /\ MountedAt("LiveCamera", LiveInitialState("LiveCamera"), MaxClock - MaxCaptures)

NextLiveCamera ==
    \/ startAnalysis \/ stopAnalysis \/ setAutoCapture \/ capture \/ capture_stale
    \/ LiveCamera_render \/ capture_then \/ capture_catch

SpecLiveCamera == InitLiveCamera /\ [][NextLiveCamera]_vars

(* The history list of a live page and the length the claim gives it. *)
History(st) ==
    IF "results" \in DOMAIN st THEN st.results
    ELSE IF "emotions" \in DOMAIN st THEN st.emotions
    ELSE st.detections

HistoryLimit(c) == IF c = "SimpleLandmarks" THEN 5 ELSE 10

(* C15: the history of a live page never holds more than its limit (10     *)
(* results, 10 emotions, 5 detections); a step that changes it either      *)
(* empties it or puts one new entry at index 0 in front of the old         *)
(* entries, of which exactly the oldest is left out when the list was      *)
(* full.                                                                   *)
C15_HistoriesBounded ==
    /\ [](component \in LivePages => Len(History(state)) <= HistoryLimit(component))
    /\ [][(component \in LivePages /\ History(state') # History(state)) =>
            LET old == History(state)
                new == History(state')
                limit == HistoryLimit(component)
            IN \/ new = << >>
               \/ /\ Len(new) >= 1
                  /\ \A k \in 1..Len(old) : old[k] # new[1]
                  /\ Tail(new) = IF Len(old) = limit THEN SubSeq(old, 1, limit - 1) ELSE old
          ]_vars

(* The results of LiveCamera are full and the last capture has pushed out  *)
(* the oldest of them.                                                     *)
C15_Witness ==
    /\ component = "LiveCamera"
    /\ Len(state.results) = 10
    /\ dropped # null
    /\ dropped.image < state.results[10].image
    /\ state.results[1].image > state.results[2].image

(* C25 as claimed: while LandmarksTracker is tracking its timer is running, *)
(* and a tick of the timer while tracking sets currentEmotion to a new     *)
(* entry and puts it at the head of emotions; a tick after Stop Tracking   *)
(* adds nothing and clears the timer.                                      *)
C25_Original ==
    /\ []((component = "LandmarksTracker" /\ state.isTracking) => state.intervals # << >>)
    /\ [][ /\ ( (simulateEmotionDetection_tick /\ state.isTracking) =>
                  /\ state'.currentEmotion # null
                  /\ state'.currentEmotion # state.currentEmotion
                  /\ state'.emotions # << >>
                  /\ state'.emotions[1] = state'.currentEmotion )
            /\ ( (simulateEmotionDetection_tick /\ ~state.isTracking) =>
                  /\ state'.emotions = state.emotions
                  /\ Len(state'.intervals) < Len(state.intervals) ) ]_vars

(* C22 as claimed: at most one request of LiveCamera is in flight. *)
C22_Original == component = "LiveCamera" => Cardinality(requests) <= 1

(* C26: a failed request of LiveCamera leaves results as it was and resets *)
(* analyzing; every request that settles resets analyzing, so analyzing is *)
(* false whenever no request is in flight; and with no request in flight   *)
(* and the page rendered, an active page can capture again.                *)
C26_AnalyzingAlwaysReset ==
    /\ [](component = "LiveCamera" =>
            /\ (requests = {} => ~state.analyzing)
            /\ ( ( /\ requests = {} /\ state.isActive /\ clock < MaxClock
                   /\ state.handlers = Rendered(state.analyzing) ) => ENABLED capture ))
    /\ [][ /\ capture_catch => (state'.results = state.results /\ ~state'.analyzing)
            /\ ( (component = "LiveCamera" /\ Cardinality(requests') < Cardinality(requests))
                  => ~state'.analyzing ) ]_vars

(* Two captures were made; the first is in results, the second is neither  *)
(* there nor in flight, and the page can capture again.                    *)
C26_Witness ==
    /\ component = "LiveCamera"
    /\ state.isActive
    /\ requests = {}
    /\ ~state.analyzing
    /\ clock = MaxClock - MaxCaptures + 2
    /\ Len(state.results) = 1
    /\ state.results[1].image = clock - 1
    /\ ENABLED capture

(* C27 as claimed: Start Analysis empties results, and the answer to a     *)
(* capture begun before a Stop adds nothing to results.                    *)
C27_Original ==
    [][ /\ (startAnalysis => state'.results = << >>)
        /\ ( component = "LiveCamera" =>
                \A req \in requests :
                    (req.stopped /\ req \notin requests') => state'.results = state.results )
      ]_vars

(* --------------------------- the chat pages --------------------------- *)
(* ChatInterface (part_004) and ChatGPTInterface (part_002).  A text is a  *)
(* sequence of strings: what the user types is a sequence of characters, a *)
(* reply is the sequence of the pieces it is put together from.  clock     *)
(* counts the calls of the send and upload handlers and gives the          *)
(* timestamps.                                                             *)
MaxSends == 2

(* What the user types: blanks only, "Hi", "Feeling?". *)
ChatTexts ==
    { << " ", " " >>, << "H", "i" >>, << "F", "e", "e", "l", "i", "n", "g", "?" >> }

(* String.prototype.trim on a sequence of characters. *)
RECURSIVE trim(_)
trim(text) ==
    IF text # << >> /\ Head(text) = " " THEN trim(Tail(text))
    ELSE IF text # << >> /\ text[Len(text)] = " " THEN trim(SubSeq(text, 1, Len(text) - 1))
    ELSE text

(* String.prototype.toLowerCase on the capitals of ChatTexts. *)
toLowerCase(text) ==
    [ i \in 1..Len(text) |->
        IF text[i] = "F" THEN "f" ELSE IF text[i] = "H" THEN "h" ELSE text[i] ]

(* String.prototype.includes. *)
includes(text, sub) ==
    \E i \in 0..(Len(text) - Len(sub)) : SubSeq(text, i + 1, i + Len(sub)) = sub

(* part_002 lines 97-109: generateTextResponse. *)
generateTextResponse(text) ==
    LET lowerText == toLowerCase(text)
    IN IF \/ includes(lowerText, << "e", "m", "o", "t", "i", "o", "n" >>)
          \/ includes(lowerText, << "f", "e", "e", "l", "i", "n", "g" >>)
       THEN << "I can help analyze emotions in images! Upload a photo and I'll tell you what emotions I detect, including confidence levels and mood analysis." >>
       ELSE IF /\ includes(lowerText, << "h", "o", "w" >>)
               /\ includes(lowerText, << "w", "o", "r", "k" >>)
       THEN << "I use advanced AI vision technology to analyze facial expressions and body language. Simply upload an image, and I'll provide detailed emotion analysis with confidence scores." >>
       ELSE IF \/ includes(lowerText, << "a", "c", "c", "u", "r", "a", "c", "y" >>)
               \/ includes(lowerText, << "r", "e", "l", "i", "a", "b", "l", "e" >>)
       THEN << "My emotion detection uses state-of-the-art AI models trained on thousands of facial expressions. Accuracy depends on image quality, lighting, and clear facial visibility." >>
       ELSE << "I'm specialized in emotion analysis! Ask me about emotions, upload an image for analysis, or inquire about how facial expression detection works." >>

(* part_002 lines 84-95: generateEmotionInsight, for the emotion words of  *)
(* ChatAnalyses (toLowerCase makes "Sad" the key "sad").                   *)
generateEmotionInsight(emotion) ==
    LET key == IF emotion = "Sad" THEN "sad" ELSE emotion
    IN IF key = "happy" THEN "This suggests positive feelings and good emotional state."
       ELSE IF key = "sad" THEN "This indicates some level of sadness or melancholy."
       ELSE IF key = "angry" THEN "This shows signs of frustration or anger."
       ELSE IF key = "surprised" THEN "This suggests an unexpected or surprising moment."
       ELSE IF key = "fear" THEN "This indicates anxiety or fear response."
       ELSE IF key = "neutral" THEN "This shows a calm, neutral emotional state."
       ELSE "Interesting expression to analyze!"

(* part_002 lines 72-82: formatAnalysisResponse; confidence is held in     *)
(* hundredths, so (confidence * 100).toFixed(0) is its decimal numeral.    *)
formatAnalysisResponse(data) ==
    IF Field(data, "error") # ""
    THEN << "I encountered an issue: ", data.error, ". ", Field(data, "suggestion") >>
    ELSE LET emotion == OrElse(Field(data, "emotion"), "Unknown")
             confidence == IF "confidence" \in DOMAIN data /\ data.confidence # 0
                           THEN ToString(data.confidence)
                           ELSE "Unknown"
             mood == OrElse(Field(data, "mood"), "Unable to determine")
         IN << "I can see ", emotion, " emotion with ", confidence,
               "% confidence. The overall mood appears to be: ", mood, ". ",
               generateEmotionInsight(emotion) >>

(* Bodies of the 2xx answers of /api/analyze-image to the chat: a full     *)
(* analysis, one with the emotion only, and an error body.                 *)
ChatAnalyses ==
    { [emotion |-> "happy", confidence |-> 92, mood |-> "relaxed and open"],
      [emotion |-> "Sad"],
      [error |-> "No face detected", suggestion |-> "Try a clearer photo"] }

(* Bodies of the 2xx answers of /api/chat/analyze. *)
ChatReplies ==
    { [response |-> << "You look calm." >>,
       analysis |-> [emotional_state |-> "calm", confidence_level |-> "high"]] }

(* part_002 lines 5-11 and part_004 lines 6-12: the first message. *)
ChatGPTGreeting ==
    [type |-> "system",
     content |-> << "Hello! I'm your AI emotion analysis assistant. Upload an image or ask me about facial expressions and emotions." >>,
     timestamp |-> 0]

ChatGreeting ==
    [role |-> "assistant",
     content |-> << "Hi! I'm Emoticon AI. Upload an image or ask me questions about emotions!" >>,
     timestamp |-> 0]

(* part_002 line 63, part_004 lines 45 and 94: the error texts. *)
ChatGPTErrorText ==
    << "Sorry, I encountered an error processing your request. Please try again." >>

SendErrorText == << "Sorry, I encountered an error. Please try again." >>

UploadErrorText == << "Sorry, I couldn't analyze that image. Please try again." >>

(* useState initial values; file is fileInputRef.current.files[0] of       *)
(* ChatGPTInterface, reader the file a FileReader of ChatInterface is      *)
(* reading.                                                                *)
ChatInitialState(c) ==
    IF c = "ChatGPTInterface"
    THEN [messages |-> << ChatGPTGreeting >>, inputText |-> << >>, isLoading |-> FALSE,
          file |-> null]
    ELSE [messages |-> << ChatGreeting >>, inputMessage |-> << >>, isLoading |-> FALSE,
          reader |-> null]

(* part_002 line 193: the textarea, which is never disabled. *)
setInputText ==
    /\ component = "ChatGPTInterface"
    /\ \E text \in ChatTexts : state' = [state EXCEPT !.inputText = text]
    /\ UNCHANGED << liveVars, component, requests, clock, dropped >>

(* part_002 lines 177-189: a file is chosen with the paperclip button,     *)
(* which is never disabled.                                                *)
ChatGPTInterface_selectFile ==
    /\ component = "ChatGPTInterface"
    /\ \E f \in ImageFiles : state' = [state EXCEPT !.file = f]
    /\ UNCHANGED << liveVars, component, requests, clock, dropped >>

(* part_002 lines 16-59 and 67-69: handleSendMessage up to the await,      *)
(* called by the Send button (lines 206-212: disabled while loading or     *)
(* with nothing to send) or by Enter in the textarea (lines 111-116: no    *)
(* test at all).  Without a file the reply is appended in the same call.   *)
ChatGPTInterface_handleSendMessage ==
    /\ component = "ChatGPTInterface"
    /\ clock < MaxSends
    /\ clock' = clock + 1
    /\ \E by \in {"Send", "Enter"} :
        by = "Send" =>
            (~state.isLoading /\ (trim(state.inputText) # << >> \/ state.file # null))
    /\ LET userMessage == [type |-> "user", content |-> state.inputText,
                           timestamp |-> clock + 1]
           aiResponse == [type |-> "assistant",
                          content |-> generateTextResponse(state.inputText),
                          timestamp |-> clock + 1]
       IN IF trim(state.inputText) = << >> /\ state.file = null
          THEN UNCHANGED << state, requests >>
          ELSE IF state.file # null
          THEN /\ state' = [state EXCEPT !.messages = Append(@, userMessage),
                                         !.inputText = << >>, !.isLoading = TRUE]
               /\ requests' = requests \cup
                     { [url |-> "/api/analyze-image", file |-> state.file, id |-> clock + 1] }
          ELSE /\ state' = [state EXCEPT !.messages = @ \o << userMessage, aiResponse >>,
                                         !.inputText = << >>, !.isLoading = FALSE]
               /\ UNCHANGED requests
    /\ UNCHANGED << liveVars, component, dropped >>

(* part_002 lines 41-49 and 67-69: the request succeeded. *)
ChatGPTInterface_then ==
    /\ component = "ChatGPTInterface"
    /\ \E req \in requests, data \in ChatAnalyses :
        LET aiResponse == [type |-> "assistant", content |-> formatAnalysisResponse(data),
                           timestamp |-> clock, data |-> data]
        IN /\ state' = [state EXCEPT !.messages = Append(@, aiResponse), !.file = null,
                                     !.isLoading = FALSE]
           /\ requests' = requests \ {req}
    /\ UNCHANGED << liveVars, component, clock, dropped >>

(* Mutant: a failed request is dropped without a message. *)
ChatGPTInterface_catch_Silent ==
    /\ component = "ChatGPTInterface"
    /\ \E req \in requests :
        /\ state' = [state EXCEPT !.isLoading = FALSE]
        /\ requests' = requests \ {req}
    /\ UNCHANGED << liveVars, component, clock, dropped >>

(* part_002 lines 60-69: the request failed. *)
ChatGPTInterface_catch ==
    /\ component = "ChatGPTInterface"
    /\ \E req \in requests :
        LET errorResponse == [type |-> "assistant", content |-> ChatGPTErrorText,
                              timestamp |-> clock]
        IN /\ state' = [state EXCEPT !.messages = Append(@, errorResponse),
                                     !.isLoading = FALSE]
           /\ requests' = requests \ {req}
    /\ UNCHANGED << liveVars, component, clock, dropped >>

(* part_004 lines 166-174: the text input, disabled while loading. *)
setInputMessage ==
    /\ component = "ChatInterface"
    /\ ~state.isLoading
    /\ \E text \in ChatTexts : state' = [state EXCEPT !.inputMessage = text]
    /\ UNCHANGED << liveVars, component, requests, clock, dropped >>

(* part_004 lines 17-33: handleSendMessage up to the await, called by the  *)
(* Send button or by Enter in the input, both disabled while loading.      *)
ChatInterface_handleSendMessage ==
    /\ component = "ChatInterface"
    /\ ~state.isLoading
    /\ clock < MaxSends
    /\ clock' = clock + 1
    /\ LET userMessage == [role |-> "user", content |-> state.inputMessage,
                           timestamp |-> clock + 1]
       IN IF trim(state.inputMessage) = << >>
          THEN UNCHANGED << state, requests >>
          ELSE /\ state' = [state EXCEPT !.messages = Append(@, userMessage),
                                         !.inputMessage = << >>, !.isLoading = TRUE]
               /\ requests' = requests \cup
                     { [url |-> "/api/chat/analyze", message |-> state.inputMessage,
                        id |-> clock + 1] }
    /\ UNCHANGED << liveVars, component, dropped >>

(* part_004 lines 35-41 and 51: the chat request succeeded. *)
ChatInterface_handleSendMessage_then ==
    /\ component = "ChatInterface"
    /\ \E req \in requests, data \in ChatReplies :
        LET assistantMessage == [role |-> "assistant", content |-> data.response,
                                 timestamp |-> clock]
        IN /\ "image_base64" \notin DOMAIN req
           /\ state' = [state EXCEPT !.messages = Append(@, assistantMessage),
                                     !.isLoading = FALSE]
           /\ requests' = requests \ {req}
    /\ UNCHANGED << liveVars, component, clock, dropped >>

(* part_004 lines 42-51: the chat request failed. *)
ChatInterface_handleSendMessage_catch ==
    /\ component = "ChatInterface"
    /\ \E req \in requests :
        LET errorMessage == [role |-> "assistant", content |-> SendErrorText,
                             timestamp |-> clock]
        IN /\ "image_base64" \notin DOMAIN req
           /\ state' = [state EXCEPT !.messages = Append(@, errorMessage),
                                     !.isLoading = FALSE]
           /\ requests' = requests \ {req}
    /\ UNCHANGED << liveVars, component, clock, dropped >>

(* part_004 lines 54-71 and 90: handleImageUpload, called when a file is   *)
(* chosen with the upload button (disabled while loading).  It appends the *)
(* user message, sets isLoading and starts the FileReader; readAsDataURL   *)
(* returns at once, so the catch of lines 91-99 is not entered.            *)
handleImageUpload ==
    /\ component = "ChatInterface"
    /\ ~state.isLoading
    /\ clock < MaxSends
    /\ clock' = clock + 1
    /\ \E file \in ImageFiles :
        LET userMessage == [role |-> "user",
                            content |-> << "I uploaded an image for analysis" >>,
                            image |-> file.name, timestamp |-> clock + 1]
        IN state' = [state EXCEPT !.messages = Append(@, userMessage), !.isLoading = TRUE,
                                  !.reader = file]
    /\ UNCHANGED << liveVars, component, requests, dropped >>

(* part_004 lines 72-78: reader.onload posts the image. *)
handleImageUpload_onload ==
    /\ component = "ChatInterface"
    /\ state.reader # null
    /\ state' = [state EXCEPT !.reader = null]
    /\ requests' = requests \cup
          { [url |-> "/api/chat/analyze", message |-> << "Analyze this image" >>,
             image_base64 |-> state.reader.name, id |-> clock] }
    /\ UNCHANGED << liveVars, component, clock, dropped >>

(* part_004 lines 71-90: the read fails; the reader has no onerror. *)
handleImageUpload_onerror ==
    /\ component = "ChatInterface"
    /\ state.reader # null
    /\ state' = [state EXCEPT !.reader = null]
    /\ UNCHANGED << liveVars, component, requests, clock, dropped >>

(* part_004 lines 80-88: the image request succeeded. *)
handleImageUpload_then ==
    /\ component = "ChatInterface"
    /\ \E req \in requests, data \in ChatReplies :
        LET assistantMessage == [role |-> "assistant", content |-> data.response,
                                 analysis |-> data.analysis, timestamp |-> clock]
        IN /\ "image_base64" \in DOMAIN req
           /\ state' = [state EXCEPT !.messages = Append(@, assistantMessage),
                                     !.isLoading = FALSE]
           /\ requests' = requests \ {req}
    /\ UNCHANGED << liveVars, component, clock, dropped >>

(* part_004 lines 72-89: the image request failed.  The await is inside    *)
(* the async onload callback, which runs after handleImageUpload has       *)
(* returned: the rejection is not caught by lines 91-99.                   *)
handleImageUpload_reject ==
    /\ component = "ChatInterface"
    /\ \E req \in requests :
        /\ "image_base64" \in DOMAIN req
        /\ requests' = requests \ {req}
    /\ UNCHANGED << liveVars, component, state, clock, dropped >>

InitChat == LiveIdle /\ \E c \in {"ChatInterface", "ChatGPTInterface"} : Mounted(c, ChatInitialState(c))

NextChat ==
    \/ setInputText \/ ChatGPTInterface_selectFile \/ ChatGPTInterface_handleSendMessage
    \/ ChatGPTInterface_then \/ ChatGPTInterface_catch
    \/ setInputMessage \/ ChatInterface_handleSendMessage
    \/ ChatInterface_handleSendMessage_then \/ ChatInterface_handleSendMessage_catch
    \/ handleImageUpload \/ handleImageUpload_onload \/ handleImageUpload_onerror
    \/ handleImageUpload_then \/ handleImageUpload_reject

SpecChat == InitChat /\ [][NextChat]_vars

(* C21 as claimed: when the read or the request of an uploaded image fails *)
(* an assistant message is appended and isLoading is reset; isLoading is   *)
(* set only while a read or a request is under way.                        *)
C21_Original ==
    /\ []((component = "ChatInterface" /\ state.isLoading) =>
            (requests # {} \/ state.reader # null))
    /\ [][(handleImageUpload_reject \/ handleImageUpload_onerror) =>
            /\ Len(state'.messages) = Len(state.messages) + 1
            /\ state'.messages[Len(state'.messages)].role = "assistant"
            /\ state'.messages[Len(state'.messages)].content = UploadErrorText
            /\ ~state'.isLoading ]_vars

(* The messages of a list with the given sender. *)
OfType(messages, type) == { i \in 1..Len(messages) : messages[i].type = type }

(* C23: in ChatGPTInterface the first message is the greeting and every    *)
(* step keeps the old messages as a prefix; a send with blank text and no  *)
(* file changes nothing; any other send appends one user message with the  *)
(* typed text, followed at once by one reply when no file is attached;     *)
(* each request that settles appends one assistant message, a formatted    *)
(* reply or the error text, and resets isLoading; no other step appends;   *)
(* so the assistant messages and the requests in flight together are as    *)
(* many as the user messages.                                              *)
C23_SendsAppendOnly ==
    /\ [](component = "ChatGPTInterface" =>
            /\ state.messages[1] = ChatGPTGreeting
            /\ Cardinality(OfType(state.messages, "assistant")) + Cardinality(requests)
                  = Cardinality(OfType(state.messages, "user")))
    /\ [][component = "ChatGPTInterface" =>
            LET old == state.messages
                new == state'.messages
                blank == trim(state.inputText) = << >> /\ state.file = null
                last == new[Len(new)]
            IN /\ Len(new) >= Len(old)
               /\ SubSeq(new, 1, Len(old)) = old
               /\ (clock' # clock /\ blank) => (state' = state /\ requests' = requests)
               /\ (clock' # clock /\ ~blank) =>
                     /\ Len(new) > Len(old)
                     /\ new[Len(old) + 1].type = "user"
                     /\ new[Len(old) + 1].content = state.inputText
                     /\ IF state.file # null
                        THEN /\ Len(new) = Len(old) + 1
                             /\ Cardinality(requests') = Cardinality(requests) + 1
                        ELSE /\ Len(new) = Len(old) + 2
                             /\ last.type = "assistant"
                             /\ last.content = generateTextResponse(state.inputText)
                             /\ requests' = requests
                             /\ ~state'.isLoading
               /\ Cardinality(requests') < Cardinality(requests) =>
                     /\ Len(new) = Len(old) + 1
                     /\ last.type = "assistant"
                     /\ last.content \in
                           { formatAnalysisResponse(data) : data \in ChatAnalyses }
                              \cup { ChatGPTErrorText }
                     /\ ~state'.isLoading
               /\ (clock' = clock /\ requests' = requests) => new = old
          ]_vars

(* Two sends with a file were made: one was answered with the error text,  *)
(* the other with a formatted analysis; nothing is in flight.              *)
C23_Witness ==
    /\ component = "ChatGPTInterface"
    /\ requests = {}
    /\ ~state.isLoading
    /\ clock = 2
    /\ Len(state.messages) = 5
    /\ \E i \in 1..5 : state.messages[i].content = ChatGPTErrorText
    /\ \E i \in 1..5 : /\ "data" \in DOMAIN state.messages[i]
                       /\ state.messages[i].content =
                             formatAnalysisResponse(state.messages[i].data)

(* C24 as claimed: in ChatGPTInterface isLoading is true while a request   *)
(* is outstanding, and at most one request is outstanding.                 *)
C24_Original ==
    component = "ChatGPTInterface" =>
        /\ requests # {} => state.isLoading
        /\ Cardinality(requests) <= 1

(* ---------------------- two sessions side by side --------------------- *)
(* Two sessions of the live loop read their frames at the same times, each *)
(* from its own camera.                                                    *)
PairFrames == 3

(* The faces the two cameras show: mouth open, mouth open with the head    *)
(* tilted, and mouth open with only 200 landmarks present.                 *)
PairFaces ==
    { Face(50, 60, 60, 0, 100, 478), Face(50, 60, 60, 40, 100, 478),
      Face(50, 60, 60, 0, 100, 200) }

(* Lines 51-53: the state of a session before its first frame. *)
SessionStart ==
    [last_detected |-> {}, last_detect_time |-> EmptyDict, current_time |-> 0,
     results |-> << >>, detected_now |-> << >>, printed |-> << >>]

(* Lines 76-92: a session evaluates the frame with results res read at     *)
(* time t.                                                                 *)
SessionFrame(run, res, t) ==
    LET st0 == [detected_now |-> << >>, last_detected |-> run.last_detected,
                last_detect_time |-> run.last_detect_time, printed |-> << >>]
        st == IF Len(res) > 0 THEN FaceLoop(1, res, t, st0) ELSE st0
    IN [last_detected |-> st.last_detected, last_detect_time |-> st.last_detect_time,
        current_time |-> t, results |-> res, detected_now |-> st.detected_now,
        printed |-> st.printed]

(* Both sessions read and evaluate their next frame. *)
PairFrame ==
    /\ component = "TwoSessions"
    /\ state.frames < PairFrames
    /\ \E dt \in 1..MaxDt, fa \in PairFaces, fb \in PairFaces :
        LET t == state.a.current_time + dt
        IN /\ t <= MaxTime
           /\ state' = [a |-> SessionFrame(state.a, << fa >>, t),
                        b |-> SessionFrame(state.b, << fb >>, t),
                        frames |-> state.frames + 1]
    /\ UNCHANGED << liveVars, component, requests, clock, dropped >>

InitPair ==
    LiveIdle /\ Mounted("TwoSessions", [a |-> SessionStart, b |-> SessionStart, frames |-> 0])

NextPair == PairFrame

SpecPair == InitPair /\ [][NextPair]_vars

(* What a session knows about gesture g: whether it has fired and when. *)
Entry(g, run) == << g \in run.last_detected, Get(run.last_detect_time, g, 0 - 1) >>

(* C19: when two sessions evaluate a frame at the same time, with the same *)
(* predicate value for gesture g (true, false or raises) and the same      *)
(* cooldown entry for g, then g is emitted in both or in neither and has   *)
(* the same cooldown entry in both afterwards, whatever the other          *)
(* gestures do in either session.                                          *)
C19_GesturesIndependent ==
    [][(component = "TwoSessions" /\ state'.frames = state.frames + 1) =>
        \A g \in Names :
            ( /\ condition(g, state'.a.results[1]) = condition(g, state'.b.results[1])
              /\ Entry(g, state.a) = Entry(g, state.b)
              /\ state'.a.current_time = state'.b.current_time )
            => ( /\ Emitted(state'.a.detected_now, g) <=> Emitted(state'.b.detected_now, g)
                 /\ Entry(g, state'.a) = Entry(g, state'.b) )
      ]_vars

(* A gesture that fired in both sessions at the same time holds in both    *)
(* and is suppressed in both, on a frame on which another gesture fires in *)
(* session a only and a rule raises in session b.                          *)
C19_Witness ==
    /\ component = "TwoSessions"
    /\ \E g \in Names :
        /\ g \in state.a.last_detected /\ g \in state.b.last_detected
        /\ state.a.last_detect_time[g] = state.b.last_detect_time[g]
        /\ state.a.last_detect_time[g] < state.a.current_time
        /\ HeldOn(state.a.results, g) /\ HeldOn(state.b.results, g)
        /\ ~Emitted(state.a.detected_now, g) /\ ~Emitted(state.b.detected_now, g)
    /\ \E h \in Names : Emitted(state.a.detected_now, h) /\ ~Emitted(state.b.detected_now, h)
    /\ Len(state.b.printed) > 0

====
